---- MODULE Spec2Model ----
(***************************************************************************)
(* Model of src/main.py (knowledge_chatbot): the response parser           *)
(* (_parse_knowledge_response), the extractor (extract_knowledge), the RAG *)
(* query (query_knowledge) and the request handlers chat_endpoint,         *)
(* query_endpoint and get_stats over the two Chroma collections.           *)
(*                                                                         *)
(* Text is a sequence of lexemes.  A lexeme is one of: the fence of three *)
(* backticks (written "<fence>" here),                                     *)
(* the word "json", a run of whitespace, the punctuation [ ] , and the     *)
(* double quote, a prose word, an integer literal longer than Python's     *)
(* int-conversion digit limit, or a whole JSON object.  Python values are  *)
(* tagged records ([ty |-> ...]) so that values of different Python types  *)
(* can be compared.                                                        *)
(***************************************************************************)
EXTENDS Integers, Sequences, FiniteSets, TLC

VARIABLES conversations, knowledge, nextUuid, last, base, fence, parsed

vars == <<conversations, knowledge, nextUuid, last, base, fence, parsed>>

storeVars == <<conversations, knowledge, nextUuid, last>>

parserVars == <<base, fence, parsed>>

(***************************************************************************)
(* Bounds of the model.                                                    *)
(***************************************************************************)
\* longest free-form response text handed to the parser (in lexemes)
MaxFreeLen == 3

\* most elements of a rendered JSON array handed to the parser
MaxItems == 3

\* chat requests served in one behaviour (each consumes one uuid)
MaxChats == 2

\* the store's add calls of one request are numbered 1..MaxAddCall
MaxAddCall == 4

(***************************************************************************)
(* Lexemes.                                                                *)
(***************************************************************************)
\* three backticks
Fence == "<fence>"

JsonTag == "json"

Ws == " "

LBracket == "["

RBracket == "]"

Comma == ","

Quote == "\""

Word == "w"

\* an integer literal of more digits than sys.get_int_max_str_digits()
BigInt == "9..9"

ObjectLexemes == {"{full}", "{min}", "{abc}", "{big}", "{str7}", "{nullc}"}

(***************************************************************************)
(* Python values.                                                          *)
(***************************************************************************)
Absent == [ty |-> "absent"]

JNull == [ty |-> "null"]

JStr(s) == [ty |-> "str", s |-> s]

JInt(n) == [ty |-> "int", n |-> n]

JStrList(l) == [ty |-> "strlist", l |-> l]

\* a decoded array element that is itself an array (its elements are not read)
JList == [ty |-> "list"]

JDict(topic, content, keywords, score) ==
    [ty |-> "dict", topic |-> topic, content |-> content,
     keywords |-> keywords, importance_score |-> score]

\* the dict each object lexeme decodes to
ObjectOf(tok) ==
    CASE tok = "{full}"  -> JDict(JStr("T"), JStr("C"), JStrList(<<"k", "j">>), JInt(7))
      [] tok = "{min}"   -> JDict(Absent, Absent, Absent, Absent)
      [] tok = "{abc}"   -> JDict(JStr("A"), JStr("C2"), Absent, JStr("abc"))
      [] tok = "{big}"   -> JDict(Absent, JStr("C3"), JStrList(<<>>), JInt(42))
      [] tok = "{str7}"  -> JDict(JStr("S"), JStr("C4"), JStrList(<<"k">>), JStr("7"))
      [] tok = "{nullc}" -> JDict(JStr("N"), JNull, Absent, JInt(3))

\* outcome of a call: exc = "none" and a value, or the exception raised
Ok(v) == [exc |-> "none", val |-> v]

Raise(e) == [exc |-> e]

\* raise HTTPException(status_code=500, detail=str(e)): the handler's failure
HTTPException(detail) == [status |-> "HTTPException", status_code |-> 500, detail |-> detail]

(***************************************************************************)
(* Fence stripping and strip() of the response text (line 108): each      *)
(* fence, an optional json tag after it and the whitespace that follows    *)
(* are deleted; then leading and trailing whitespace.                      *)
(***************************************************************************)
RECURSIVE DropWs(_)
DropWs(s) ==
    IF s # <<>> /\ Head(s) = Ws THEN DropWs(Tail(s)) ELSE s

RECURSIVE DropNonWs(_)
DropNonWs(s) ==
    IF s # <<>> /\ Head(s) # Ws THEN DropNonWs(Tail(s)) ELSE s

RECURSIVE StripFencesAnyTag(_)
\* a variant that deletes, after a fence, everything up to the next whitespace
StripFencesAnyTag(s) ==
    IF s = <<>> THEN <<>>
    ELSE IF Head(s) = Fence THEN StripFencesAnyTag(DropWs(DropNonWs(Tail(s))))
    ELSE <<Head(s)>> \o StripFencesAnyTag(Tail(s))

RECURSIVE StripFences(_)
StripFences(s) ==
    IF s = <<>> THEN <<>>
    ELSE IF Head(s) = Fence
         THEN LET r == Tail(s)
                  afterTag == IF r # <<>> /\ Head(r) = JsonTag THEN Tail(r) ELSE r
              IN  StripFences(DropWs(afterTag))
         ELSE <<Head(s)>> \o StripFences(Tail(s))

RECURSIVE DropTrailingWs(_)
DropTrailingWs(s) ==
    IF s # <<>> /\ s[Len(s)] = Ws THEN DropTrailingWs(SubSeq(s, 1, Len(s) - 1)) ELSE s

StrStrip(s) == DropTrailingWs(DropWs(s))

Clean(text) == StrStrip(StripFences(text))

(***************************************************************************)
(* The array search of line 111 (dot matches newlines): from the leftmost  *)
(* opening bracket, greedily, to the last closing bracket after it.        *)
(***************************************************************************)
Positions(s, tok) == {i \in 1..Len(s) : s[i] = tok}

Min(S) == CHOOSE x \in S : \A y \in S : x <= y

Max(S) == CHOOSE x \in S : \A y \in S : x >= y

SearchArray(s) ==
    LET opens  == Positions(s, LBracket)
        closes == Positions(s, RBracket)
    IN  IF opens = {} \/ closes = {} \/ Max(closes) < Min(opens)
        THEN [found |-> FALSE]
        ELSE [found |-> TRUE, group |-> SubSeq(s, Min(opens), Max(closes))]

(***************************************************************************)
(* json.loads(match.group())   (line 117).  The decoder reads left to      *)
(* right and stops at the first failure: a syntax error raises             *)
(* json.JSONDecodeError; an integer literal over the int-conversion digit  *)
(* limit raises a plain ValueError from int(), which is no                 *)
(* JSONDecodeError.                                                        *)
(***************************************************************************)
At(s, i) == IF i >= 1 /\ i <= Len(s) THEN s[i] ELSE "<eof>"

RECURSIVE SkipWs(_, _)
SkipWs(s, i) == IF At(s, i) = Ws THEN SkipWs(s, i + 1) ELSE i

Decoded(v, nx) == [exc |-> "none", val |-> v, nx |-> nx]

RECURSIVE ParseValue(_, _), ParseArray(_, _), ParseElements(_, _, _)
ParseValue(s, i) ==
    LET t == At(s, i)
    IN  CASE t \in ObjectLexemes -> Decoded(ObjectOf(t), i + 1)
          [] t = BigInt -> Raise("ValueError")
          [] t = Quote ->
               LET closing == {j \in (i + 1)..Len(s) : s[j] = Quote}
               IN  IF closing = {} THEN Raise("JSONDecodeError")
                   ELSE Decoded(JStr("s"), Min(closing) + 1)
          [] t = LBracket ->
               LET a == ParseArray(s, i)
               IN  IF a.exc = "none" THEN Decoded(JList, a.nx) ELSE a
          [] OTHER -> Raise("JSONDecodeError")

ParseArray(s, i) ==
    LET j == SkipWs(s, i + 1)
    IN  IF At(s, j) = RBracket THEN Decoded(<<>>, j + 1)
        ELSE ParseElements(s, j, <<>>)

ParseElements(s, i, acc) ==
    LET r == ParseValue(s, i)
    IN  IF r.exc # "none" THEN r
        ELSE LET k == SkipWs(s, r.nx)
             IN  CASE At(s, k) = RBracket -> Decoded(Append(acc, r.val), k + 1)
                   [] At(s, k) = Comma ->
                        ParseElements(s, SkipWs(s, k + 1), Append(acc, r.val))
                   [] OTHER -> Raise("JSONDecodeError")

\* s is a match of the array search, so its first lexeme is an opening bracket
JsonLoads(s) ==
    LET r == ParseArray(s, SkipWs(s, 1))
    IN  IF At(s, SkipWs(s, 1)) # LBracket THEN Raise("JSONDecodeError")
        ELSE IF r.exc # "none" THEN r
        ELSE IF SkipWs(s, r.nx) # Len(s) + 1 THEN Raise("JSONDecodeError")
        ELSE Ok(r.val)

(***************************************************************************)
(* The per-item loop of lines 122-131.                                     *)
(***************************************************************************)
\* dict.get(key, default)
Get(d, key, default) == IF d[key].ty = "absent" THEN default ELSE d[key]

\* int(x): an int is kept, a string of digits is converted
PyInt(v) ==
    CASE v.ty = "int" -> Ok(v.n)
      [] v.ty = "str" -> IF v.s = "7" THEN Ok(7) ELSE Raise("ValueError")
      [] OTHER -> Raise("TypeError")

\* a variant without field validation
KnowledgeExtractionUnvalidated(topic, content, keywords, importance_score) ==
    Ok([topic |-> topic, content |-> content, keywords |-> keywords,
        importance_score |-> importance_score])

\* the pydantic model of lines 29-33: field types are validated, the score's
\* range is only a comment
KnowledgeExtraction(topic, content, keywords, importance_score) ==
    IF topic.ty = "str" /\ content.ty = "str" /\ keywords.ty = "strlist"
    THEN Ok([topic |-> topic, content |-> content, keywords |-> keywords,
             importance_score |-> importance_score])
    ELSE Raise("ValidationError")

\* lines 124-129 for one decoded element
ConstructItem(item) ==
    IF item.ty # "dict" THEN Raise("AttributeError")
    ELSE LET score == PyInt(Get(item, "importance_score", JInt(5)))
         IN  IF score.exc # "none" THEN score
             ELSE KnowledgeExtraction(Get(item, "topic", JStr("Unknown")),
                                      Get(item, "content", JStr("")),
                                      Get(item, "keywords", JStrList(<<>>)),
                                      score.val)

RECURSIVE ItemLoopStopsAtFailure(_, _)
\* a variant that leaves the loop at the first element that fails
ItemLoopStopsAtFailure(items, knowledge_items) ==
    IF items = <<>> THEN knowledge_items
    ELSE LET r == ConstructItem(Head(items))
         IN  IF r.exc = "none"
             THEN ItemLoopStopsAtFailure(Tail(items), Append(knowledge_items, r.val))
             ELSE knowledge_items

RECURSIVE ItemLoop(_, _)
ItemLoop(items, knowledge_items) ==
    IF items = <<>> THEN knowledge_items
    ELSE LET r == ConstructItem(Head(items))
         IN  ItemLoop(Tail(items),
                      IF r.exc = "none" THEN Append(knowledge_items, r.val)
                      ELSE knowledge_items)

\* KnowledgeBot._parse_knowledge_response (lines 101-133)
_parse_knowledge_response(response_text) ==
    LET cleaned == Clean(response_text)
        match   == SearchArray(cleaned)
    IN  IF ~match.found THEN Ok(<<>>)
        ELSE LET items == JsonLoads(match.group)
             IN  IF items.exc = "JSONDecodeError" THEN Ok(<<>>)
                 ELSE IF items.exc # "none" THEN Raise(items.exc)
                 ELSE Ok(ItemLoop(items.val, <<>>))

(***************************************************************************)
(* Response texts handed to the parser.                                    *)
(***************************************************************************)
\* The object lexemes "{full}", "{big}" and "{str7}" hold a keywords list, whose
\* own brackets the array search would see: they appear only between the
\* brackets of a rendered array.  Free-form text uses the object "{min}", whose
\* text is {} and holds no bracket.
FreeAlphabet ==
    {Fence, JsonTag, Ws, LBracket, RBracket, Comma, Quote, Word, BigInt, "{min}"}

FreeTexts == UNION {[1..n -> FreeAlphabet] : n \in 0..MaxFreeLen}

ElementLists == UNION {[1..n -> ObjectLexemes] : n \in 0..MaxItems}

RECURSIVE RenderElements(_)
RenderElements(elems) ==
    IF elems = <<>> THEN <<>>
    ELSE IF Len(elems) = 1 THEN <<Head(elems)>>
    ELSE <<Head(elems), Comma, Ws>> \o RenderElements(Tail(elems))

\* json text of the array of the given elements
Render(elems) == <<LBracket>> \o RenderElements(elems) \o <<RBracket>>

Preambles == {<<>>, <<Word, Ws>>}

Postambles == {<<>>, <<Ws, Word>>, <<Ws, LBracket, Word, RBracket>>}

RenderedTexts ==
    {pre \o Render(e) \o post : pre \in Preambles, e \in ElementLists, post \in Postambles}

BaseTexts == FreeTexts \cup RenderedTexts

FenceKinds == {"none", "bare", "json", "tight"}

\* the text inside a markdown fence of the given kind
Wrap(kind, x) ==
    CASE kind = "none"  -> x
      [] kind = "bare"  -> <<Fence, Ws>> \o x \o <<Ws, Fence>>
      [] kind = "json"  -> <<Fence, JsonTag, Ws>> \o x \o <<Ws, Fence>>
      [] kind = "tight" -> <<Fence, JsonTag>> \o x \o <<Fence>>

NotParsed == [done |-> FALSE]

StoreInit ==
    /\ conversations = <<>>
    /\ knowledge = <<>>
    /\ nextUuid = 1
    /\ last = [op |-> "none"]

InitParser ==
    /\ StoreInit
    /\ base \in BaseTexts
    /\ fence \in FenceKinds
    /\ parsed = NotParsed

ParseResponse ==
    /\ ~parsed.done
    /\ parsed' = [done |-> TRUE, out |-> _parse_knowledge_response(Wrap(fence, base))]
    /\ UNCHANGED <<base, fence, storeVars>>

NextParser == ParseResponse

SpecParser == InitParser /\ [][NextParser]_vars

(***************************************************************************)
(* The generation collaborator (ollama.generate) either raises, returns an *)
(* object without a usable 'response' entry, or returns a text.            *)
(***************************************************************************)
GenRaises == [kind |-> "raise"]

GenMalformed == [kind |-> "malformed"]

GenText(t) == [kind |-> "text", text |-> t]

\* lines 85-95: the body of the try block of extract_knowledge
ExtractBody(conversation_text, generate) ==
    CASE generate.kind = "raise" -> Raise("ConnectionError")
      [] generate.kind = "malformed" -> Raise("KeyError")
      [] OTHER -> _parse_knowledge_response(generate.text)

\* a variant without the except clause
extract_knowledge_uncaught(conversation_text, generate) ==
    ExtractBody(conversation_text, generate)

\* KnowledgeBot.extract_knowledge (lines 64-99): except Exception returns []
extract_knowledge(conversation_text, generate) ==
    LET r == ExtractBody(conversation_text, generate)
    IN  IF r.exc # "none" THEN Ok(<<>>) ELSE r

(***************************************************************************)
(* The two Chroma collections are sequences of records in insertion order. *)
(* An add call either raises (the store rejects it) or appends; ids are    *)
(* fresh (uuid4) so no add meets an existing id.  Timestamps are left out. *)
(***************************************************************************)
RECURSIVE JoinComma(_)
\* ",".join(keywords), as the sequence of its pieces
JoinComma(l) ==
    IF l = <<>> THEN <<>>
    ELSE IF Len(l) = 1 THEN <<Head(l)>>
    ELSE <<Head(l), ",">> \o JoinComma(Tail(l))

\* lines 191-199: the record of one inbound message
ConversationRecord(conversation_id, message, user_id) ==
    [id |-> conversation_id, document |-> message, user_id |-> user_id,
     conversation_id |-> conversation_id]

\* lines 206-219: the record of the i-th (from 0) extracted item
KnowledgeRecord(k, i, conversation_id, user_id) ==
    [id |-> <<conversation_id, "_knowledge_", i>>,
     document |-> k.content,
     topic |-> k.topic,
     keywords |-> JoinComma(k.keywords.l),
     importance_score |-> k.importance_score,
     user_id |-> user_id,
     source_conversation |-> conversation_id]

\* a variant whose ids lack the index: the store ignores an add of an existing id
StoreKnowledgeSameId(coll, items, i, conversation_id, user_id, rejectAt) ==
    IF items = <<>> THEN [exc |-> "none", coll |-> coll, rejected |-> 0]
    ELSE IF rejectAt = 2 THEN [exc |-> "StoreError", coll |-> coll, rejected |-> 2]
    ELSE [exc |-> "none", rejected |-> 0,
          coll |-> Append(coll, [KnowledgeRecord(items[1], 0, conversation_id, user_id)
                                 EXCEPT !.id = <<conversation_id, "_knowledge">>])]

RECURSIVE StoreKnowledgeSwallow(_, _, _, _, _, _, _)
StoreKnowledgeSwallow(coll, items, i, conversation_id, user_id, rejectAt, rejected) ==
    IF i >= Len(items) THEN [exc |-> "none", coll |-> coll, rejected |-> rejected]
    ELSE IF rejectAt = i + 2
         THEN StoreKnowledgeSwallow(coll, items, i + 1, conversation_id, user_id,
                                    rejectAt, i + 2)
         ELSE StoreKnowledgeSwallow(
                  Append(coll, KnowledgeRecord(items[i + 1], i, conversation_id, user_id)),
                  items, i + 1, conversation_id, user_id, rejectAt, rejected)

\* a variant that catches the store's rejection inside the loop and goes on
StoreKnowledgeContinues(coll, items, i, conversation_id, user_id, rejectAt) ==
    StoreKnowledgeSwallow(coll, items, i, conversation_id, user_id, rejectAt, 0)

RECURSIVE StoreKnowledge(_, _, _, _, _, _)
\* the loop of lines 205-219 from index i on; the add call of item i is call
\* i + 2 of the request, and call rejectAt raises
StoreKnowledge(coll, items, i, conversation_id, user_id, rejectAt) ==
    IF i >= Len(items) THEN [exc |-> "none", coll |-> coll, rejected |-> 0]
    ELSE IF rejectAt = i + 2
         THEN [exc |-> "StoreError", coll |-> coll, rejected |-> i + 2]
         ELSE StoreKnowledge(
                  Append(coll, KnowledgeRecord(items[i + 1], i, conversation_id, user_id)),
                  items, i + 1, conversation_id, user_id, rejectAt)

\* chat_endpoint (lines 183-229).  The result holds the two collections after
\* the request, the response, and what the request did.
chat_endpoint(convs, know, conversation_id, message, user_id, generate, rejectAt) ==
    IF rejectAt = 1
    THEN [conversations |-> convs, knowledge |-> know,
          response |-> HTTPException("StoreError"),
          generate_calls |-> 0, extraction |-> Raise("not run"), rejected |-> 1]
    ELSE LET convs1 == Append(convs, ConversationRecord(conversation_id, message, user_id))
             knowledge_items == extract_knowledge(message, generate)
         IN  IF knowledge_items.exc # "none"
             THEN [conversations |-> convs1, knowledge |-> know,
                   response |-> HTTPException(knowledge_items.exc),
                   generate_calls |-> 1, extraction |-> knowledge_items, rejected |-> 0]
             ELSE LET st == StoreKnowledge(know, knowledge_items.val, 0,
                                           conversation_id, user_id, rejectAt)
                  IN  [conversations |-> convs1, knowledge |-> st.coll,
                       response |->
                           IF st.exc # "none"
                           THEN HTTPException(st.exc)
                           ELSE [status |-> "success",
                                 message |-> "Knowledge stored successfully",
                                 knowledge_items_extracted |-> Len(knowledge_items.val),
                                 conversation_id |-> conversation_id],
                       generate_calls |-> 1, extraction |-> knowledge_items,
                       rejected |-> st.rejected]

(***************************************************************************)
(* The RAG query.  A string the code builds is the sequence of its pieces. *)
(***************************************************************************)
NoInformation == <<"I don't have any relevant information about that topic yet.">>

ErrorPrefix == "Error querying knowledge base: "

\* n_results of query_knowledge
DefaultNResults == 5

\* knowledge_collection.query: at most n documents; the ranking is the store's
QueryDocuments(know, n) ==
    [i \in 1..(IF Len(know) < n THEN Len(know) ELSE n) |-> know[i].document]

\* a variant without the test for an empty result
QueryBodyNoEmptyCheck(know, query, n_results, storeFails, generate) ==
    IF storeFails THEN [exc |-> "StoreError", generate_calls |-> 0]
    ELSE CASE generate.kind = "raise" ->
                [exc |-> "ConnectionError", generate_calls |-> 1]
           [] generate.kind = "malformed" ->
                [exc |-> "KeyError", generate_calls |-> 1]
           [] OTHER ->
                [exc |-> "none", val |-> <<generate.text>>, generate_calls |-> 1]

\* lines 144-174: the body of the try block of query_knowledge
QueryBody(know, query, n_results, storeFails, generate) ==
    IF storeFails THEN [exc |-> "StoreError", generate_calls |-> 0]
    ELSE LET documents == QueryDocuments(know, n_results)
         IN  IF documents = <<>>
             THEN [exc |-> "none", val |-> NoInformation, generate_calls |-> 0]
             ELSE CASE generate.kind = "raise" ->
                         [exc |-> "ConnectionError", generate_calls |-> 1]
                    [] generate.kind = "malformed" ->
                         [exc |-> "KeyError", generate_calls |-> 1]
                    [] OTHER ->
                         [exc |-> "none", val |-> <<generate.text>>, generate_calls |-> 1]

\* a variant without the except clause
query_knowledge_uncaught(know, query, n_results, storeFails, generate) ==
    QueryBody(know, query, n_results, storeFails, generate)

\* KnowledgeBot.query_knowledge (lines 140-178): except Exception returns a string
query_knowledge(know, query, n_results, storeFails, generate) ==
    LET r == QueryBody(know, query, n_results, storeFails, generate)
    IN  IF r.exc # "none"
        THEN [exc |-> "none", val |-> <<ErrorPrefix, r.exc>>,
              generate_calls |-> r.generate_calls]
        ELSE r

\* query_endpoint (lines 231-245)
query_endpoint(know, query, storeFails, generate) ==
    LET response == query_knowledge(know, query, DefaultNResults, storeFails, generate)
    IN  [response |-> IF response.exc # "none"
                      THEN HTTPException(response.exc)
                      ELSE [status |-> "success", query |-> query,
                            response |-> response.val],
         generate_calls |-> response.generate_calls,
         raised |-> response.exc]

\* get_stats (lines 247-261)
get_stats(convs, know, storeFails) ==
    IF storeFails THEN HTTPException("StoreError")
    ELSE [total_conversations |-> Len(convs), total_knowledge_items |-> Len(know)]

(***************************************************************************)
(* Inputs of the requests.                                                 *)
(***************************************************************************)
Messages == {"hello", "fact"}

UserIds == {"default"}

Queries == {"what?"}

ChatTexts ==
    { <<Word, Ws>> \o Render(<<"{full}", "{abc}", "{big}">>) \o <<Ws, Word>>,
      Render(<<"{min}", "{nullc}", "{str7}">>),
      Wrap("json", Render(<<"{str7}", "{full}", "{big}">>)),
      Render(<<>>),
      <<Word, Ws, Word>>,
      <<LBracket, Word, RBracket>>,
      <<LBracket, BigInt, RBracket>> }

ChatGenerations == {GenRaises, GenMalformed} \cup {GenText(t) : t \in ChatTexts}

QueryGenerations == {GenRaises, GenMalformed, GenText("an answer")}

(***************************************************************************)
(* The service: one action per request handler.  last holds the response   *)
(* of the latest request and what the request did.  A handler is a         *)
(* coroutine on one event loop and its only await (extract_knowledge, line *)
(* 202) never suspends, since ollama.generate and the Chroma calls block:  *)
(* each request runs from start to end without another in between.         *)
(***************************************************************************)
Init ==
    /\ StoreInit
    /\ base = <<>>
    /\ fence = "none"
    /\ parsed = NotParsed

ChatEndpoint ==
    \E message \in Messages, user_id \in UserIds, generate \in ChatGenerations,
       rejectAt \in 0..MaxAddCall :
        /\ nextUuid <= MaxChats
        /\ \E r \in {chat_endpoint(conversations, knowledge, nextUuid, message, user_id,
                                  generate, rejectAt)} :
               /\ conversations' = r.conversations
               /\ knowledge' = r.knowledge
               /\ last' = [op |-> "chat", response |-> r.response, message |-> message,
                           user_id |-> user_id,
                           conversation_id |-> nextUuid, generate |-> generate,
                           generate_calls |-> r.generate_calls,
                           extraction |-> r.extraction, rejected |-> r.rejected]
        /\ nextUuid' = nextUuid + 1
        /\ UNCHANGED parserVars

QueryEndpoint ==
    \E query \in Queries, storeFails \in BOOLEAN, generate \in QueryGenerations :
        /\ \E r \in {query_endpoint(knowledge, query, storeFails, generate)} :
               last' = [op |-> "query", response |-> r.response, storeFails |-> storeFails,
                        generate |-> generate, generate_calls |-> r.generate_calls,
                        raised |-> r.raised,
                        documents |-> QueryDocuments(knowledge, DefaultNResults)]
        /\ UNCHANGED <<conversations, knowledge, nextUuid, parserVars>>

GetStats ==
    \E storeFails \in BOOLEAN :
        /\ last' = [op |-> "stats", response |-> get_stats(conversations, knowledge, storeFails)]
        /\ UNCHANGED <<conversations, knowledge, nextUuid, parserVars>>

Next == ChatEndpoint \/ QueryEndpoint \/ GetStats

Spec == Init /\ [][Next]_vars

(***************************************************************************)
(* Properties of the service (under Spec).                                 *)
(***************************************************************************)
\* a step of chat_endpoint: the only handler that draws a uuid
ChatStep == nextUuid' # nextUuid

\* C1: a store-message request that reports success with N extracted items
\* leaves the conversation count 1 higher and the knowledge count N higher,
\* and get_stats then returns these two counts.
C1_RoundTrip ==
    [][(ChatStep /\ last'.response.status = "success") =>
         LET N == last'.response.knowledge_items_extracted
         IN  /\ Len(conversations') = Len(conversations) + 1
             /\ Len(knowledge') = Len(knowledge) + N
             /\ N = Len(last'.extraction.val)
             /\ get_stats(conversations', knowledge', FALSE) =
                    [total_conversations |-> Len(conversations) + 1,
                     total_knowledge_items |-> Len(knowledge) + N]]_vars

C1_Witness ==
    /\ last.op = "chat"
    /\ last.response.status = "success"
    /\ last.response.knowledge_items_extracted = 3
    /\ Len(conversations) = 2
    /\ Len(knowledge) > 3

\* the text holds no JSON array: no part of it decodes
NonJsonProse(t) ==
    \A i, j \in 1..Len(t) : i <= j => JsonLoads(SubSeq(t, i, j)).exc # "none"

GenerationFailed(g) ==
    \/ g.kind \in {"raise", "malformed"}
    \/ g.kind = "text" /\ NonJsonProse(g.text)

\* C2: whatever the generation collaborator does during extraction (raises,
\* returns a malformed object, returns non-JSON prose), extract_knowledge
\* returns an empty list without raising and the request reports success with
\* the conversation persisted and 0 items extracted.
C2_ExtractionFailureSwallowed ==
    (last.op = "chat" /\ last.generate_calls = 1 /\ GenerationFailed(last.generate)) =>
        /\ last.extraction = Ok(<<>>)
        /\ last.response.status = "success"
        /\ last.response.knowledge_items_extracted = 0
        /\ \E i \in DOMAIN conversations :
               conversations[i] =
                   ConversationRecord(last.conversation_id, last.message, last.user_id)

C2_Witness ==
    /\ last.op = "chat"
    /\ last.generate_calls = 1
    /\ last.generate.kind = "text"
    /\ NonJsonProse(last.generate.text)
    /\ last.response.status = "success"
    /\ Len(conversations) = 2

\* C3: when the similarity query returns no document, the answer is exactly
\* the fixed no-information string and the generation collaborator is not
\* invoked.
C3_NoDocumentsCannedAnswer ==
    (last.op = "query" /\ ~last.storeFails /\ last.documents = <<>>) =>
        /\ last.response.status = "success"
        /\ last.response.response = NoInformation
        /\ last.generate_calls = 0

C3_Witness ==
    /\ last.op = "query"
    /\ ~last.storeFails
    /\ last.documents = <<>>
    /\ last.generate.kind = "raise"
    /\ last.response.response = NoInformation
    /\ conversations # <<>>

\* C4: query_knowledge never raises: when the store query or the generation
\* call fails it returns a string that begins with the error prefix and
\* names the failure, and query_endpoint reports success carrying it.
C4_QueryFailureIsAnAnswer ==
    last.op = "query" =>
        /\ last.raised = "none"
        /\ last.response.status = "success"
        /\ (last.storeFails \/ (last.documents # <<>> /\ last.generate.kind # "text")) =>
               /\ Len(last.response.response) = 2
               /\ Head(last.response.response) = ErrorPrefix
               /\ last.response.response[2] \in {"StoreError", "ConnectionError", "KeyError"}

C4_Witness ==
    /\ last.op = "query"
    /\ last.documents # <<>>
    /\ last.generate.kind = "raise"
    /\ last.response.status = "success"
    /\ last.response.response = <<ErrorPrefix, "ConnectionError">>

\* C6: every item the parser returns and every persisted knowledge item has an
\* importance_score in 1..10.
C6_ScoreInRange ==
    /\ \A i \in DOMAIN knowledge : knowledge[i].importance_score \in 1..10
    /\ (last.op = "chat" /\ last.extraction.exc = "none") =>
           \A i \in DOMAIN last.extraction.val :
               last.extraction.val[i].importance_score \in 1..10

\* C9: a rejection by the store fails the request; a rejected conversation
\* insert leaves both collections as they were and runs no extraction; a
\* rejected insert of an item leaves the conversation and the items before it
\* persisted and inserts no later item.
C9_StoreRejectionPropagates ==
    [][(ChatStep /\ last'.rejected > 0) =>
         /\ last'.response.status = "HTTPException"
         /\ IF last'.rejected = 1
            THEN /\ conversations' = conversations
                 /\ knowledge' = knowledge
                 /\ last'.generate_calls = 0
            ELSE LET k == last'.rejected - 2
                 IN  /\ conversations' =
                            Append(conversations,
                                   ConversationRecord(nextUuid, last'.message, last'.user_id))
                     /\ Len(knowledge') = Len(knowledge) + k
                     /\ SubSeq(knowledge', 1, Len(knowledge)) = knowledge
                     /\ \A i \in 1..k :
                            /\ knowledge'[Len(knowledge) + i].document =
                                   last'.extraction.val[i].content
                            /\ knowledge'[Len(knowledge) + i].id =
                                   <<nextUuid, "_knowledge_", i - 1>>]_vars

C9_Witness ==
    /\ last.op = "chat"
    /\ last.rejected = 3
    /\ Len(last.extraction.val) = 3
    /\ last.response.status = "HTTPException"
    /\ Len(conversations) = 2

\* C10 as stated: every persisted knowledge item has non-empty content.
C10_ContentNonEmpty ==
    \A i \in DOMAIN knowledge : knowledge[i].document # JStr("")

\* C10, amended: every persisted knowledge item's content is a string, which
\* may be empty.
C10_ContentIsString ==
    \A i \in DOMAIN knowledge : knowledge[i].document.ty = "str"

C10_Witness ==
    \E i, j \in DOMAIN knowledge :
        /\ knowledge[i].document = JStr("")
        /\ knowledge[j].document = JStr("C4")
        /\ knowledge[i].source_conversation = knowledge[j].source_conversation

(***************************************************************************)
(* Properties of the parser (under SpecParser).                            *)
(***************************************************************************)
\* the array the parser decodes from the text
DecodedArray(text) ==
    LET match == SearchArray(Clean(text))
    IN  IF match.found THEN JsonLoads(match.group) ELSE Raise("no match")

IsValidElement(e) == ConstructItem(e).exc = "none"

\* the valid elements of a decoded array, constructed, in array order
ValidSubsequence(items) ==
    LET keep == SelectSeq(items, IsValidElement)
    IN  [i \in 1..Len(keep) |-> ConstructItem(keep[i]).val]

\* C5: for a decodable array the parser returns exactly the elements that
\* construct a valid KnowledgeExtraction, in array order; a failing element
\* is skipped alone.
C5_ValidSubsequenceInOrder ==
    (parsed.done /\ DecodedArray(Wrap(fence, base)).exc = "none") =>
        parsed.out = Ok(ValidSubsequence(DecodedArray(Wrap(fence, base)).val))

C5_Witness ==
    /\ parsed.done
    /\ DecodedArray(Wrap(fence, base)).exc = "none"
    /\ \E i \in 2..(Len(DecodedArray(Wrap(fence, base)).val) - 1) :
           /\ ~IsValidElement(DecodedArray(Wrap(fence, base)).val[i])
           /\ IsValidElement(DecodedArray(Wrap(fence, base)).val[i - 1])
           /\ IsValidElement(DecodedArray(Wrap(fence, base)).val[i + 1])
    /\ Len(parsed.out.val) = 2

\* the text is a well-formed JSON array
IsJsonArrayText(x) == JsonLoads(x).exc # "JSONDecodeError"

\* C7: parsing a well-formed JSON array text wrapped in markdown fences gives
\* what parsing the text itself gives.
C7_FencedSameAsUnwrapped ==
    (parsed.done /\ fence # "none" /\ IsJsonArrayText(base)) =>
        parsed.out = _parse_knowledge_response(base)

C7_Witness ==
    /\ parsed.done
    /\ fence = "tight"
    /\ IsJsonArrayText(base)
    /\ parsed.out.exc = "none"
    /\ Len(parsed.out.val) = 3

\* C8: the parser never raises: without an array in the cleaned text, or when
\* the array does not decode, it returns an empty list.
C8_ParserNeverRaises ==
    parsed.done =>
        /\ parsed.out.exc = "none"
        /\ DecodedArray(Wrap(fence, base)).exc # "none" => parsed.out.val = <<>>

====
